---------------------------- MODULE Spec2Model ----------------------------
(***************************************************************************)
(* The ranking engine of the free-association project: makeStochastic      *)
(* (matrix_loader.py), pageRank and hypertextInducedTopicSearch            *)
(* (accessibility_ranker.py).                                              *)
(*                                                                         *)
(* Numbers are exact rationals <<numerator, denominator>> in lowest terms  *)
(* with a positive denominator; IEEE-754 rounding of the Python floats is  *)
(* not modelled.  A residual is kept as the difference vector(s) whose     *)
(* Euclidean norm it is, so that "residual >= epsilon" is decided exactly  *)
(* on the squares, without a square root.  The squares do not fit TLC's    *)
(* 32-bit integers, so norms are compared in multi-digit ("wide")          *)
(* natural-number arithmetic.                                              *)
(***************************************************************************)
EXTENDS Integers, Sequences, FiniteSets, TLC

----------------------------------------------------------------------------
(* Bounds of the model *)

\* largest number of rows / columns of a matrix handed to makeStochastic
MaxN == 3

\* largest number of rows / columns of a matrix file handed to a ranking function
MaxRankN == 2

\* largest number of loop iterations of a ranking function that is explored
MaxIter == 3

----------------------------------------------------------------------------
(* Exact rational arithmetic standing for the float operations *)

Abs(a) == IF a < 0 THEN -a ELSE a

RECURSIVE GCD(_, _)
GCD(a, b) == IF b = 0 THEN a ELSE GCD(b, a % b)

\* the rational p/q (q # 0) in lowest terms
Rat(p, q) ==
    LET g == GCD(Abs(p), Abs(q))
        s == IF q < 0 THEN -1 ELSE 1
    IN  <<s * (p \div g), s * (q \div g)>>

Zero == <<0, 1>>
One  == <<1, 1>>

RNeg(a) == <<-a[1], a[2]>>

RAdd(a, b) ==
    LET g == GCD(a[2], b[2])
    IN  Rat(a[1] * (b[2] \div g) + b[1] * (a[2] \div g), (a[2] \div g) * b[2])

RSub(a, b) == RAdd(a, RNeg(b))

RMul(a, b) ==
    LET g1 == GCD(Abs(a[1]), b[2])
        g2 == GCD(Abs(b[1]), a[2])
    IN  IF a[1] = 0 \/ b[1] = 0 THEN Zero
        ELSE <<(a[1] \div g1) * (b[1] \div g2), (a[2] \div g2) * (b[2] \div g1)>>

\* a / b for b # 0
RDiv(a, b) ==
    RMul(a, IF b[1] < 0 THEN <<-b[2], -b[1]>> ELSE <<b[2], b[1]>>)

RSign(a) == IF a[1] > 0 THEN 1 ELSE IF a[1] < 0 THEN -1 ELSE 0

RLess(a, b) == RSign(RSub(a, b)) < 0
RLeq(a, b)  == RSign(RSub(a, b)) <= 0

\* sum(v) of a sequence of rationals
RECURSIVE RSum(_)
RSum(v) == IF v = <<>> THEN Zero ELSE RAdd(v[1], RSum(Tail(v)))

\* the square of np.linalg.norm(v)
SumSq(v) == RSum([q \in 1..Len(v) |-> RMul(v[q], v[q])])

\* len(matrix) and the length of its rows
Rows(m) == Len(m)
Cols(m) == Len(m[1])

IsSquare(m) == Rows(m) = Cols(m)

----------------------------------------------------------------------------
(* makeStochastic, matrix_loader.py *)

\* InnerLoop with a dangling row spread over all n nodes: 1. / len(matrix)
RECURSIVE InnerLoopOverN(_, _, _, _, _)
InnerLoopOverN(row, total, i, j, n) ==
    IF j > n THEN [row |-> row, err |-> "none"]
    ELSE IF total = Zero
         THEN IF i # j
              THEN IF j > Len(row) THEN [row |-> row, err |-> "IndexError"]
                   ELSE InnerLoopOverN([row EXCEPT ![j] = RDiv(One, <<n, 1>>)],
                                       total, i, j + 1, n)
              ELSE InnerLoopOverN(row, total, i, j + 1, n)
         ELSE IF j > Len(row) THEN [row |-> row, err |-> "IndexError"]
              ELSE InnerLoopOverN([row EXCEPT ![j] = RDiv(row[j], total)],
                                  total, i, j + 1, n)

\* the inner loop over j of one row i, from column j on: `row` is matrix[i]
\* as rewritten so far, `total` the row sum taken before the inner loop.
\* A column j beyond the row's length raises IndexError and leaves the loop.
RECURSIVE InnerLoop(_, _, _, _, _)
InnerLoop(row, total, i, j, n) ==
    IF j > n THEN [row |-> row, err |-> "none"]
    ELSE IF total = Zero
         THEN IF i # j
              THEN IF j > Len(row) THEN [row |-> row, err |-> "IndexError"]
                   ELSE InnerLoop([row EXCEPT ![j] = RDiv(One, <<n - 1, 1>>)],
                                  total, i, j + 1, n)
              ELSE InnerLoop(row, total, i, j + 1, n)
         ELSE IF j > Len(row) THEN [row |-> row, err |-> "IndexError"]
              ELSE InnerLoop([row EXCEPT ![j] = RDiv(row[j], total)],
                             total, i, j + 1, n)

\* StochasticRow with the total of the first row taken for every row
StochasticRowFirstTotal(m, i) == InnerLoop(m[i], RSum(m[1]), i, 1, Len(m))

\* one pass of the outer loop: row i of m
StochasticRow(m, i) == InnerLoop(m[i], RSum(m[i]), i, 1, Len(m))

\* makeStochastic(matrix) from row i on: the matrix when the call ends, and
\* how it ends ("returned", or the exception that leaves it)
RECURSIVE RunMakeStochastic(_, _)
RunMakeStochastic(m, i) ==
    IF i > Len(m) THEN [matrix |-> m, outcome |-> "returned"]
    ELSE LET r == StochasticRow(m, i)
         IN  IF r.err # "none"
             THEN [matrix |-> [m EXCEPT ![i] = r.row], outcome |-> r.err]
             ELSE RunMakeStochastic([m EXCEPT ![i] = r.row], i + 1)

----------------------------------------------------------------------------
(* Wide natural numbers: little-endian digit sequences in base WBase *)

WBase == 100 * 100

RECURSIVE W(_)
W(a) == IF a = 0 THEN <<>> ELSE <<a % WBase>> \o W(a \div WBase)

RECURSIVE WAdd(_, _, _)
WAdd(a, b, carry) ==
    IF a = <<>> /\ b = <<>> THEN (IF carry = 0 THEN <<>> ELSE <<carry>>)
    ELSE LET da == IF a = <<>> THEN 0 ELSE a[1]
             db == IF b = <<>> THEN 0 ELSE b[1]
             t  == da + db + carry
         IN  <<t % WBase>> \o WAdd(IF a = <<>> THEN a ELSE Tail(a),
                                   IF b = <<>> THEN b ELSE Tail(b),
                                   t \div WBase)

RECURSIVE WScale(_, _, _)
WScale(a, d, carry) ==
    IF a = <<>> THEN (IF carry = 0 THEN <<>> ELSE <<carry>>)
    ELSE LET t == a[1] * d + carry
         IN  <<t % WBase>> \o WScale(Tail(a), d, t \div WBase)

RECURSIVE WMul(_, _)
WMul(a, b) ==
    IF b = <<>> THEN <<>>
    ELSE WAdd(WScale(a, b[1], 0), <<0>> \o WMul(a, Tail(b)), 0)

RECURSIVE WTrim(_)
WTrim(a) ==
    IF a # <<>> /\ a[Len(a)] = 0 THEN WTrim(SubSeq(a, 1, Len(a) - 1)) ELSE a

RECURSIVE WLeqTrimmed(_, _)
WLeqTrimmed(a, b) ==
    IF Len(a) # Len(b) THEN Len(a) < Len(b)
    ELSE IF a = <<>> THEN TRUE
    ELSE IF a[Len(a)] # b[Len(b)] THEN a[Len(a)] < b[Len(b)]
    ELSE WLeqTrimmed(SubSeq(a, 1, Len(a) - 1), SubSeq(b, 1, Len(b) - 1))

WLeq(a, b) == WLeqTrimmed(WTrim(a), WTrim(b))

WSquare(a) == WMul(W(Abs(a)), W(Abs(a)))

RECURSIVE LcmDen(_)
LcmDen(v) ==
    IF v = <<>> THEN 1
    ELSE LET l == LcmDen(Tail(v)) IN (v[1][2] \div GCD(v[1][2], l)) * l

RECURSIVE WSumSquares(_, _)
WSumSquares(v, d) ==
    IF v = <<>> THEN <<>>
    ELSE WAdd(WSquare(v[1][1] * (d \div v[1][2])), WSumSquares(Tail(v), d), 0)

\* np.linalg.norm(v) <= np.linalg.norm(w), decided on the squares
NormLeq(v, w) ==
    LET dv == LcmDen(v)
        dw == LcmDen(w)
    IN  WLeq(WMul(WSumSquares(v, dv), WSquare(dw)),
             WMul(WSumSquares(w, dw), WSquare(dv)))

\* np.linalg.norm(v) >= eps
NormGeq(v, eps) ==
    IF RSign(eps) <= 0 THEN TRUE ELSE NormLeq(<<eps>>, v)

----------------------------------------------------------------------------
(* Vectors and matrices of rationals *)

\* Uniform with all the mass on the first node
UniformFirst(n) == [q \in 1..n |-> IF q = 1 THEN One ELSE Zero]

\* (1. / n) * np.ones((1, n))
Uniform(n) == [q \in 1..n |-> Rat(1, n)]

\* np.matmul(v, m) for a row vector v with Len(v) = Rows(m)
VecMat(v, m) ==
    [j \in 1..Cols(m) |-> RSum([q \in 1..Len(v) |-> RMul(v[q], m[q][j])])]

\* np.matmul of a 1 x p row vector and an r x c matrix is defined iff p = r
MatMulDefined(v, m) == Len(v) = Rows(m)

\* numpy broadcasts a 1 x p against a 1 x q array iff p = q, p = 1 or q = 1
Broadcastable(p, q) == p = q \/ p = 1 \/ q = 1

\* np.subtract(v, w) of two broadcastable row vectors
Subtract(v, w) ==
    LET len == IF Len(v) > Len(w) THEN Len(v) ELSE Len(w)
        at(u, q) == IF Len(u) = 1 THEN u[1] ELSE u[q]
    IN  [q \in 1..len |-> RSub(at(v, q), at(w, q))]

----------------------------------------------------------------------------
(* The inputs *)

\* an r x c array of the given integer weights, as floats
AsFloats(f) == [p \in DOMAIN f |-> [q \in DOMAIN f[p] |-> <<f[p][q], 1>>]]

\* the r x c link matrices the create*UnweightedMatrix functions fill in
\* before they call makeStochastic: 1. where a target was produced, else 0.
Unweighted(r, c) == {AsFloats(f) : f \in [1..r -> [1..c -> {0, 1}]]}

\* weighted association strengths (createNormedWeightedMatrix): examples
WeightedExamples ==
    { AsFloats(<<<<1, 2>>, <<0, 0>>>>),
      AsFloats(<<<<2, 1, 1>>, <<0, 0, 0>>, <<0, 3, 0>>>>),
      AsFloats(<<<<0, 0, 0>>, <<0, 0, 0>>, <<1, 2, 3>>>>) }

\* a 4 x 5 array, every row [1/5, 1/5, 1/5, 1/5, 1/5]
FourByFive == [p \in 1..4 |-> [q \in 1..5 |-> Rat(1, 5)]]

\* makeStochastic is called on
\*   - every unweighted link matrix of up to MaxN rows and columns
\*   - the weighted examples and the 4 x 5 array
IsMakeStochasticInput(m) ==
    \/ \E r \in 1..MaxN, c \in 1..MaxN :
          \E f \in [1..r -> [1..c -> {0, 1}]] : m = AsFloats(f)
    \/ m \in WeightedExamples \cup {FourByFive}

\* a ranking function is called on
\*   - every matrix file a create*UnweightedMatrix function dumps for up to
\*     MaxRankN cues (the link matrix as makeStochastic left it)
\*   - every unweighted array of up to MaxRankN rows and columns that is not
\*     square
IsRankMatrix(m) ==
    \E r \in 1..MaxRankN, c \in 1..MaxRankN :
        \E f \in [1..r -> [1..c -> {0, 1}]] :
            m = IF r = c THEN RunMakeStochastic(AsFloats(f), 1).matrix
                ELSE AsFloats(f)

\* damping parameters (alpha, xi) and thresholds (epsilon), in and out of range
Dampings == {Rat(1, 2), Zero, One}
Epsilons == {Rat(2, 1), One, Rat(1, 4), Zero, Rat(-1, 2)}

\* a matrix is row-stochastic: square, no negative entry, every row sums to 1
IsStochastic(m) ==
    /\ IsSquare(m)
    /\ \A p \in 1..Rows(m) :
          /\ \A q \in 1..Cols(m) : RSign(m[p][q]) >= 0
          /\ RSum(m[p]) = One

\* every row [1/d, ..., 1/d]
UniformMatrix(d) == [p \in 1..d |-> Uniform(d)]

\* three nodes, the third without out-links, as makeStochastic leaves it
DanglingThird ==
    RunMakeStochastic(AsFloats(<<<<0, 1, 0>>, <<1, 0, 1>>, <<0, 0, 0>>>>), 1).matrix

\* four nodes: the first three link to the fourth, the fourth to the third
FourNodes ==
    AsFloats(<<<<0, 0, 0, 1>>, <<0, 0, 0, 1>>, <<0, 0, 0, 1>>, <<0, 0, 1, 0>>>>)

\* four nodes on a ring, each linking to the next
Ring == AsFloats(<<<<0, 1, 0, 0>>, <<0, 0, 1, 0>>, <<0, 0, 0, 1>>, <<1, 0, 0, 0>>>>)

Call(o, m, a, e) == [op |-> o, matrix |-> m, alpha |-> a, epsilon |-> e]

\* single calls on larger matrices
Scenarios ==
    { Call("pageRank", UniformMatrix(3), Rat(17, 20), Rat(1, 100000000)),
      Call("pageRank", DanglingThird, Rat(1, 2), Rat(1, 4)),
      Call("pageRank", FourNodes, Rat(9, 10), Rat(11, 20)),
      Call("pageRank", FourByFive, Rat(1, 2), Rat(1, 4)),
      Call("activation.pageRank", DanglingThird, Rat(1, 2), Rat(1, 4)),
      Call("hits", Ring, Rat(17, 20), Rat(1, 4)),
      Call("hits", FourByFive, Rat(1, 2), Rat(1, 4)) }

----------------------------------------------------------------------------
(* The state *)

VARIABLES
    op,          \* the function called
    input,       \* the matrix as passed in (as stored in the matrix file)
    alpha,       \* alpha of pageRank, xi of hypertextInducedTopicSearch
    epsilon,
    matrix,      \* the array the function works on, rewritten in place
    pc,          \* where the call is
    i,           \* makeStochastic: the row the outer loop is at
    n,           \* len(matrix)
    ERatio,
    pi,          \* pageRank's iterate
    authMatrix,
    hubMatrix,
    x,           \* the authority iterate
    y,           \* the hub iterate
    residual,    \* the difference vector(s) whose norm(s) add up to residual
    k,           \* the local k of the ranking functions
    steps,       \* loop iterations executed so far
    outcome      \* "none" while running, "returned", or the exception raised

args == <<op, input, alpha, epsilon>>
hitsVars == <<authMatrix, hubMatrix, x, y>>
vars == <<op, input, alpha, epsilon, matrix, pc, i, n, ERatio, pi,
          authMatrix, hubMatrix, x, y, residual, k, steps, outcome>>

Init ==
    /\ \/ /\ op = "makeStochastic"
          /\ IsMakeStochasticInput(input)
          /\ alpha = Zero
          /\ epsilon = Zero
       \/ /\ op \in {"pageRank", "activation.pageRank", "hits"}
          /\ IsRankMatrix(input)
          /\ alpha \in Dampings
          /\ epsilon \in Epsilons
       \/ \E c \in Scenarios :
             /\ op = c.op
             /\ input = c.matrix
             /\ alpha = c.alpha
             /\ epsilon = c.epsilon
    /\ matrix = input
    /\ pc = "start"
    /\ i = 1
    /\ n = 0
    /\ ERatio = Zero
    /\ pi = <<>>
    /\ authMatrix = <<>>
    /\ hubMatrix = <<>>
    /\ x = <<>>
    /\ y = <<>>
    /\ residual = <<>>
    /\ k = 0
    /\ steps = 0
    /\ outcome = "none"

----------------------------------------------------------------------------
(* makeStochastic: one action per pass of the outer loop *)

MSRow ==
    /\ op = "makeStochastic"
    /\ pc = "start"
    /\ i <= Len(matrix)
    /\ LET r == StochasticRow(matrix, i)
       IN  /\ r.err = "none"
           /\ matrix' = [matrix EXCEPT ![i] = r.row]
           /\ i' = i + 1
    /\ UNCHANGED <<args, hitsVars, pc, n, ERatio, pi, residual, k, steps, outcome>>

\* a row shorter than len(matrix): the inner loop indexes past its end
MSRowIndexError ==
    /\ op = "makeStochastic"
    /\ pc = "start"
    /\ i <= Len(matrix)
    /\ LET r == StochasticRow(matrix, i)
       IN  /\ r.err # "none"
           /\ matrix' = [matrix EXCEPT ![i] = r.row]
           /\ outcome' = r.err
    /\ pc' = "done"
    /\ UNCHANGED <<args, hitsVars, i, n, ERatio, pi, residual, k, steps>>

MSReturn ==
    /\ op = "makeStochastic"
    /\ pc = "start"
    /\ i > Len(matrix)
    /\ pc' = "done"
    /\ outcome' = "returned"
    /\ UNCHANGED <<args, hitsVars, matrix, i, n, ERatio, pi, residual, k, steps>>

----------------------------------------------------------------------------
(* pageRank, accessibility_ranker.py *)

\* GoogleRow without the factor alpha: matrix[i][j] + ERatio
RECURSIVE GoogleRowNoAlpha(_, _, _, _, _)
GoogleRowNoAlpha(row, a, e, q, len) ==
    IF q > len THEN [row |-> row, err |-> "none"]
    ELSE IF q > Len(row) THEN [row |-> row, err |-> "IndexError"]
    ELSE GoogleRowNoAlpha([row EXCEPT ![q] = RAdd(row[q], e)], a, e, q + 1, len)

\* the Google-matrix loop over i and j in range(n), on row p from column q
\* on; a column beyond the row's length raises IndexError
RECURSIVE GoogleRow(_, _, _, _, _)
GoogleRow(row, a, e, q, len) ==
    IF q > len THEN [row |-> row, err |-> "none"]
    ELSE IF q > Len(row) THEN [row |-> row, err |-> "IndexError"]
    ELSE GoogleRow([row EXCEPT ![q] = RAdd(RMul(a, row[q]), e)], a, e, q + 1, len)

RECURSIVE GoogleTransform(_, _, _, _)
GoogleTransform(m, a, e, p) ==
    IF p > Len(m) THEN [matrix |-> m, err |-> "none"]
    ELSE LET r == GoogleRow(m[p], a, e, 1, Len(m))
         IN  IF r.err # "none"
             THEN [matrix |-> [m EXCEPT ![p] = r.row], err |-> r.err]
             ELSE GoogleTransform([m EXCEPT ![p] = r.row], a, e, p + 1)

\* TeleportRatio without the division by n: (1. - alpha)
TeleportRatioNoN(a, len) == RSub(One, a)

\* (1. - alpha) * (1. / n)
TeleportRatio(a, len) == RMul(RSub(One, a), Rat(1, len))

\* the initial residual = 1.
InitialResidual == <<<<One>>>>

\* ResidualGeq of a loop that never sees the residual fall below epsilon
ResidualGeqAlways(res, e) == TRUE

\* residual >= epsilon, for residual the sum of the norms of the vectors res:
\* sqrt(s) + sqrt(t) >= e  iff  e <= 0, or e^2 - s - t <= 0, or
\* 4 s t >= (e^2 - s - t)^2
ResidualGeq(res, e) ==
    IF \E p \in 1..Len(res) : \E q \in 1..Len(res[p]) : res[p][q][2] = 0
    THEN FALSE   \* nan >= epsilon is False
    ELSE IF Len(res) = 1 THEN NormGeq(res[1], e)
    ELSE LET s == SumSq(res[1])
             t == SumSq(res[2])
             d == RSub(RMul(e, e), RAdd(s, t))
         IN  \/ RSign(e) <= 0
             \/ RSign(d) <= 0
             \/ RLeq(RMul(d, d), RMul(<<4, 1>>, RMul(s, t)))

\* pageRank of accessibility_ranker.py and pageRank of activation_ranker.py:
\* the same code line for line, but for k += 1 in the loop of the latter
PageRanks == {"pageRank", "activation.pageRank"}

\* k after the head of one loop iteration: activation_ranker.py has k += 1
\* (line 35) before the multiplication, accessibility_ranker.py has not
NextK == IF op = "activation.pageRank" THEN k + 1 ELSE k

\* lines 26-40: load, Google matrix transform, initialisation
PRTransform ==
    /\ op \in PageRanks
    /\ pc = "start"
    /\ LET g == GoogleTransform(matrix, alpha, TeleportRatio(alpha, Len(matrix)), 1)
       IN  /\ g.err = "none"
           /\ matrix' = g.matrix
    /\ n' = Len(matrix)
    /\ ERatio' = TeleportRatio(alpha, Len(matrix))
    /\ pi' = Uniform(Len(matrix))
    /\ residual' = InitialResidual
    /\ k' = 0
    /\ pc' = "loop"
    /\ UNCHANGED <<args, hitsVars, i, steps, outcome>>

\* fewer columns than rows: matrix[i][j] indexes past the end of row 0
PRTransformIndexError ==
    /\ op \in PageRanks
    /\ pc = "start"
    /\ LET g == GoogleTransform(matrix, alpha, TeleportRatio(alpha, Len(matrix)), 1)
       IN  /\ g.err # "none"
           /\ matrix' = g.matrix
           /\ outcome' = g.err
    /\ n' = Len(matrix)
    /\ ERatio' = TeleportRatio(alpha, Len(matrix))
    /\ pc' = "done"
    /\ UNCHANGED <<args, hitsVars, i, pi, residual, k, steps>>

\* one iteration of the while loop, lines 41-44 (k is not incremented) and
\* activation_ranker.py lines 33-37 (k is)
PRStep ==
    /\ op \in PageRanks
    /\ pc = "loop"
    /\ ResidualGeq(residual, epsilon)
    /\ steps < MaxIter
    /\ MatMulDefined(pi, matrix)
    /\ LET newpi == VecMat(pi, matrix)
       IN  /\ Broadcastable(Len(pi), Len(newpi))
           /\ pi' = newpi
           /\ residual' = <<Subtract(pi, newpi)>>
    /\ steps' = steps + 1
    /\ k' = NextK
    /\ UNCHANGED <<args, hitsVars, matrix, pc, i, n, ERatio, outcome>>

\* np.matmul(pi, matrix) raises ValueError: pi was not multiplied
PRMatMulError ==
    /\ op \in PageRanks
    /\ pc = "loop"
    /\ ResidualGeq(residual, epsilon)
    /\ steps < MaxIter
    /\ ~MatMulDefined(pi, matrix)
    /\ k' = NextK
    /\ outcome' = "ValueError"
    /\ pc' = "done"
    /\ UNCHANGED <<args, hitsVars, matrix, i, n, ERatio, pi, residual, steps>>

\* np.subtract(prevpi, pi) raises ValueError after pi was multiplied
PRSubtractError ==
    /\ op \in PageRanks
    /\ pc = "loop"
    /\ ResidualGeq(residual, epsilon)
    /\ steps < MaxIter
    /\ MatMulDefined(pi, matrix)
    /\ LET newpi == VecMat(pi, matrix)
       IN  /\ ~Broadcastable(Len(pi), Len(newpi))
           /\ pi' = newpi
    /\ steps' = steps + 1
    /\ k' = NextK
    /\ outcome' = "ValueError"
    /\ pc' = "done"
    /\ UNCHANGED <<args, hitsVars, matrix, i, n, ERatio, residual>>

\* the loop ends, lines 46-47: return pi[0]
PRReturn ==
    /\ op \in PageRanks
    /\ pc = "loop"
    /\ ~ResidualGeq(residual, epsilon)
    /\ outcome' = "returned"
    /\ pc' = "done"
    /\ UNCHANGED <<args, hitsVars, matrix, i, n, ERatio, pi, residual, k, steps>>

----------------------------------------------------------------------------
(* hypertextInducedTopicSearch, accessibility_ranker.py *)

\* matrix.astype(bool).astype(int)
Binary(m) ==
    [p \in 1..Rows(m) |-> [q \in 1..Cols(m) |-> IF m[p][q][1] # 0 THEN One ELSE Zero]]

\* np.matrix.transpose(m)
Transpose(m) == [q \in 1..Cols(m) |-> [p \in 1..Rows(m) |-> m[p][q]]]

\* a @ b, for Cols(a) = Rows(b)
MatMat(a, b) == [p \in 1..Rows(a) |-> VecMat(a[p], b)]

\* (xi * np.matmul(v, m)) + ERatio
DampedStep(v, m, xi, e) ==
    LET w == VecMat(v, m) IN [q \in 1..Len(w) |-> RAdd(RMul(xi, w[q]), e)]

\* the largest r in lo..hi with r * r <= a
RECURSIVE RootBetween(_, _, _)
RootBetween(a, lo, hi) ==
    IF lo >= hi THEN lo
    ELSE LET mid == (lo + hi + 1) \div 2
         IN  IF mid * mid <= a THEN RootBetween(a, mid, hi)
             ELSE RootBetween(a, lo, mid - 1)

IntRoot(a) == RootBetween(a, 0, IF a < 46340 THEN a ELSE 46340)

\* the square root of a rational q >= 0 is rational
HasRationalRoot(q) ==
    /\ IntRoot(q[1]) * IntRoot(q[1]) = q[1]
    /\ IntRoot(q[2]) * IntRoot(q[2]) = q[2]

\* np.linalg.norm(v), where it is rational
Norm(v) == <<IntRoot(SumSq(v)[1]), IntRoot(SumSq(v)[2])>>

\* v /= np.linalg.norm(v)
Normalize(v) == [q \in 1..Len(v) |-> RDiv(v[q], Norm(v))]

\* the float nan, and a vector of them (0. / 0.)
NaN == <<0, 0>>
NaNVector(len) == [q \in 1..len |-> NaN]

\* lines 63-78: load, authority and hub matrices, initialisation
HitsSetup ==
    /\ op = "hits"
    /\ pc = "start"
    /\ n' = Len(matrix)
    /\ LET L == Binary(matrix)
           transL == Transpose(L)
       IN  /\ authMatrix' = MatMat(transL, L)
           /\ hubMatrix' = MatMat(L, transL)
    /\ ERatio' = TeleportRatio(alpha, Len(matrix))
    /\ x' = Uniform(Len(matrix))
    /\ y' = Uniform(Len(matrix))
    /\ residual' = InitialResidual
    /\ k' = 0
    /\ pc' = "loop"
    /\ UNCHANGED <<args, matrix, i, pi, steps, outcome>>

\* one iteration of the while loop, lines 80-88.  The iteration is followed
\* where both norms are rational numbers.
HitsStep ==
    /\ op = "hits"
    /\ pc = "loop"
    /\ ResidualGeq(residual, epsilon)
    /\ steps < MaxIter
    /\ MatMulDefined(x, authMatrix)
    /\ LET tx == DampedStep(x, authMatrix, alpha, ERatio)
           ty == DampedStep(y, hubMatrix, alpha, ERatio)
       IN  /\ HasRationalRoot(SumSq(tx)) /\ HasRationalRoot(SumSq(ty))
           /\ SumSq(tx) # Zero /\ SumSq(ty) # Zero
           /\ x' = Normalize(tx)
           /\ y' = Normalize(ty)
           /\ residual' = <<Subtract(x, Normalize(tx)), Subtract(y, Normalize(ty))>>
    /\ k' = k + 1
    /\ steps' = steps + 1
    /\ UNCHANGED <<args, matrix, pc, i, n, ERatio, pi, authMatrix, hubMatrix, outcome>>

\* both products are the zero vector: x /= 0. and y /= 0. leave nan, and so
\* does the residual
HitsStepNaN ==
    /\ op = "hits"
    /\ pc = "loop"
    /\ ResidualGeq(residual, epsilon)
    /\ steps < MaxIter
    /\ MatMulDefined(x, authMatrix)
    /\ SumSq(DampedStep(x, authMatrix, alpha, ERatio)) = Zero
    /\ SumSq(DampedStep(y, hubMatrix, alpha, ERatio)) = Zero
    /\ x' = NaNVector(Len(x))
    /\ y' = NaNVector(Len(y))
    /\ residual' = <<NaNVector(Len(x)), NaNVector(Len(y))>>
    /\ k' = k + 1
    /\ steps' = steps + 1
    /\ UNCHANGED <<args, matrix, pc, i, n, ERatio, pi, authMatrix, hubMatrix, outcome>>

\* np.matmul(x, authMatrix) raises ValueError, after k += 1: x is 1 x rows,
\* authMatrix is columns x columns
HitsMatMulError ==
    /\ op = "hits"
    /\ pc = "loop"
    /\ ResidualGeq(residual, epsilon)
    /\ steps < MaxIter
    /\ ~MatMulDefined(x, authMatrix)
    /\ k' = k + 1
    /\ outcome' = "ValueError"
    /\ pc' = "done"
    /\ UNCHANGED <<args, hitsVars, matrix, i, n, ERatio, pi, residual, steps>>

\* the loop ends, lines 90-91: return x[0], y[0]
HitsReturn ==
    /\ op = "hits"
    /\ pc = "loop"
    /\ ~ResidualGeq(residual, epsilon)
    /\ outcome' = "returned"
    /\ pc' = "done"
    /\ UNCHANGED <<args, hitsVars, matrix, i, n, ERatio, pi, residual, k, steps>>

----------------------------------------------------------------------------
Next ==
    \/ MSRow
    \/ MSRowIndexError
    \/ MSReturn
    \/ PRTransform
    \/ PRTransformIndexError
    \/ PRStep
    \/ PRMatMulError
    \/ PRSubtractError
    \/ PRReturn
    \/ HitsSetup
    \/ HitsStep
    \/ HitsStepNaN
    \/ HitsMatMulError
    \/ HitsReturn

Spec == Init /\ [][Next]_vars

----------------------------------------------------------------------------
(* Predicates the properties are stated with *)

Returned == pc = "done" /\ outcome = "returned"

\* alpha (xi) strictly between 0 and 1
DampingInRange == RSign(alpha) > 0 /\ RLess(alpha, One)

EpsilonPositive == RSign(epsilon) > 0

\* a vector of non-negative entries that sum to 1
IsDistribution(v) ==
    /\ \A q \in 1..Len(v) : RSign(v[q]) >= 0
    /\ RSum(v) = One

\* pageRank called as its contract asks
ValidPageRankCall ==
    /\ op \in PageRanks
    /\ IsStochastic(input)
    /\ DampingInRange
    /\ EpsilonPositive

\* the row makeStochastic is to leave in place of row p of the n x n matrix m
RegularizedRow(m, p) ==
    LET S == RSum(m[p])
    IN  [q \in 1..Len(m[p]) |->
            IF S = Zero
            THEN IF q = p THEN Zero ELSE Rat(1, Len(m) - 1)
            ELSE RDiv(m[p][q], S)]

\* sum of the absolute values of the entries
L1Norm(v) == RSum([q \in 1..Len(v) |-> <<Abs(v[q][1]), v[q][2]>>])

----------------------------------------------------------------------------
(* The properties *)

\* C1: for an n x n matrix of non-negative weights with n >= 2, when
\* makeStochastic has returned every row sums to exactly 1 and no row is
\* entirely zero.
C1_RowsSumToOne ==
    (op = "makeStochastic" /\ Returned /\ IsSquare(input) /\ Rows(input) >= 2)
        => \A p \in 1..Rows(matrix) :
              /\ RSum(matrix[p]) = One
              /\ \E q \in 1..Cols(matrix) : matrix[p][q] # Zero

\* makeStochastic has returned from a weighted 3 x 3 matrix with a dangling row
C1_Witness ==
    /\ op = "makeStochastic"
    /\ Returned
    /\ input = AsFloats(<<<<2, 1, 1>>, <<0, 0, 0>>, <<0, 3, 0>>>>)
    /\ matrix[1] = <<Rat(1, 2), Rat(1, 4), Rat(1, 4)>>

\* C2: makeStochastic gives each row p with original sum S the entries
\* original / S if S > 0, and 1/(n-1) off the diagonal and 0 on it if S = 0;
\* processing one row leaves the other rows as they are: the rows before the
\* row the loop is at are rewritten, the rows from it on are still the original.
C2_RowsAsSpecified ==
    (op = "makeStochastic" /\ IsSquare(input))
        => \A p \in 1..Rows(input) :
              matrix[p] = IF p < i THEN RegularizedRow(input, p) ELSE input[p]

\* the dangling third row of a 3-node graph has become [0.5, 0.5, 0]
C2_Witness ==
    /\ op = "makeStochastic"
    /\ Returned
    /\ input = AsFloats(<<<<0, 1, 1>>, <<1, 0, 0>>, <<0, 0, 0>>>>)
    /\ matrix[3] = <<Rat(1, 2), Rat(1, 2), Zero>>
    /\ matrix[1] = <<Zero, Rat(1, 2), Rat(1, 2)>>

\* C3: for a row-stochastic matrix, alpha in (0,1) and epsilon > 0, pi is a
\* probability distribution (entries >= 0, sum 1) from its initialisation on,
\* after every iteration of the loop and when it is returned.
C3_PiIsDistribution ==
    (ValidPageRankCall /\ pc \in {"loop", "done"}) => IsDistribution(pi)

\* pageRank has returned a vector that is not uniform after two iterations or more
C3_Witness ==
    /\ ValidPageRankCall
    /\ Returned
    /\ steps >= 2
    /\ pi # Uniform(Len(pi))

\* C4: for an n x n link matrix with n >= 2, xi in (0,1) and epsilon > 0,
\* both vectors hypertextInducedTopicSearch returns have non-negative entries
\* and Euclidean norm exactly 1.
C4_UnitNorm ==
    (/\ op = "hits"
     /\ IsSquare(input) /\ Rows(input) >= 2
     /\ DampingInRange /\ EpsilonPositive
     /\ Returned)
        => /\ SumSq(x) = One /\ SumSq(y) = One
           /\ \A q \in 1..Len(x) : RSign(x[q]) >= 0
           /\ \A q \in 1..Len(y) : RSign(y[q]) >= 0

C6_NonSquareRejected ==
    ~IsSquare(input)
        => /\ matrix = input
           /\ steps = 0
           /\ outcome # "returned"

\* C7: on a square matrix pageRank and hypertextInducedTopicSearch end in an
\* error, without any iteration and without a result, when the damping
\* parameter is not strictly between 0 and 1 or epsilon <= 0.
C7_InvalidParameterRejected ==
    (/\ op \in {"pageRank", "activation.pageRank", "hits"}
     /\ IsSquare(input)
     /\ ~(DampingInRange /\ EpsilonPositive))
        => /\ steps = 0
           /\ outcome # "returned"

\* C8: makeStochastic on the 1 x 1 matrix [[0]] ends in DegenerateInputError;
\* it never returns leaving the all-zero row in place.
C8_SingleDanglingRejected ==
    (op = "makeStochastic" /\ input = <<<<Zero>>>>)
        => /\ outcome # "returned"
           /\ pc = "done" => outcome = "DegenerateInputError"

\* C9: on the uniform n-node matrix (every entry 1/n) with alpha = 0.85 and
\* epsilon = 1e-8 (and with any alpha in (0,1) and epsilon in (0,1]) pageRank
\* applies exactly one iteration, after which the residual is below epsilon,
\* and returns the uniform vector.
C9_UniformOneIteration ==
    (/\ ValidPageRankCall
     /\ input = UniformMatrix(Rows(input))
     /\ RLeq(epsilon, One))
        => /\ steps <= 1
           /\ (pc = "loop" /\ steps = 0) => ResidualGeq(residual, epsilon)
           /\ (pc = "loop" /\ steps = 1) => ~ResidualGeq(residual, epsilon)
           /\ pc = "done" => (outcome = "returned" /\ steps = 1 /\ pi = Uniform(n))

\* pageRank has returned on the uniform 3-node matrix, alpha = 0.85, epsilon = 1e-8
C9_Witness ==
    /\ op = "pageRank"
    /\ input = UniformMatrix(3)
    /\ alpha = Rat(17, 20)
    /\ epsilon = Rat(1, 100000000)
    /\ Returned
    /\ steps = 1
    /\ pi = <<Rat(1, 3), Rat(1, 3), Rat(1, 3)>>

\* a second or later iteration of pageRank's loop on a valid call
LaterPageRankStep ==
    /\ ValidPageRankCall
    /\ pc = "loop"
    /\ steps >= 1
    /\ steps' = steps + 1

\* C10 (as claimed): the residual (Euclidean norm of the change of pi) computed
\* at an iteration is <= the residual computed at the iteration before.
C10_ResidualNonIncreasing ==
    [][LaterPageRankStep => NormLeq(residual'[1], residual[1])]_vars

\* C10 (amended): the sum of the absolute changes of pi's entries at an
\* iteration is <= that of the iteration before.
C10_AbsoluteChangeNonIncreasing ==
    [][LaterPageRankStep => RLeq(L1Norm(residual'[1]), L1Norm(residual[1]))]_vars

\* three residuals have been computed on the 4-node matrix
C10_Witness ==
    /\ ValidPageRankCall
    /\ input = FourNodes
    /\ steps = 3
    /\ L1Norm(residual[1]) # Zero

----------------------------------------------------------------------------
(* pageRank against the reference power iteration *)

\* the reference power iteration: G[p][q] = alpha * M[p][q] + (1 - alpha) / n
RefG(m, a) ==
    [p \in 1..Rows(m) |->
        [q \in 1..Rows(m) |-> RAdd(RMul(a, m[p][q]), RDiv(RSub(One, a), <<Rows(m), 1>>))]]

\* pi_j of the reference: pi_0 = (1/n, ..., 1/n), pi_{j+1} = pi_j * G
RECURSIVE RefPi(_, _, _)
RefPi(m, a, j) ==
    IF j = 0 THEN [q \in 1..Rows(m) |-> Rat(1, Rows(m))]
    ELSE LET prev == RefPi(m, a, j - 1)
             G    == RefG(m, a)
         IN  [q \in 1..Rows(m) |-> RSum([p \in 1..Rows(m) |-> RMul(prev[p], G[p][q])])]

\* the reference residual of iteration j >= 1 is below e: ||pi_j - pi_{j-1}|| < e
RefResidualBelow(m, a, j, e) ==
    LET cur  == RefPi(m, a, j)
        prev == RefPi(m, a, j - 1)
    IN  ~NormGeq([q \in 1..Rows(m) |-> RSub(cur[q], prev[q])], e)

\* C11: pageRank's result is the reference power iteration: the matrix
\* iterated on is G, the vector returned is pi_{k+1} for the smallest k >= 0
\* with ||pi_{k+1} - pi_k|| < epsilon; so at least one multiplication by G is
\* applied before the return, and the loop stops at the first iteration whose
\* residual is below epsilon.
C11_ReferencePowerIteration ==
    (ValidPageRankCall /\ Returned)
        => /\ matrix = RefG(input, alpha)
           /\ steps >= 1
           /\ pi = RefPi(input, alpha, steps)
           /\ RefResidualBelow(input, alpha, steps, epsilon)
           /\ \A j \in 1..(steps - 1) : ~RefResidualBelow(input, alpha, j, epsilon)

----------------------------------------------------------------------------
(* hypertextInducedTopicSearch against the reference HITS iteration *)

\* L[p][q] = 1 if the input entry is non-zero, else 0
RefL(m) == [p \in 1..Rows(m) |-> [q \in 1..Cols(m) |-> IF m[p][q] = Zero THEN 0 ELSE 1]]

\* A = L^T L: A[p][q] is the number of nodes that link to both p and q
RefA(m) ==
    [p \in 1..Cols(m) |-> [q \in 1..Cols(m) |->
        <<Cardinality({r \in 1..Rows(m) : RefL(m)[r][p] = 1 /\ RefL(m)[r][q] = 1}), 1>>]]

\* H = L L^T: H[p][q] is the number of nodes that both p and q link to
RefH(m) ==
    [p \in 1..Rows(m) |-> [q \in 1..Rows(m) |->
        <<Cardinality({r \in 1..Cols(m) : RefL(m)[p][r] = 1 /\ RefL(m)[q][r] = 1}), 1>>]]

\* xi * (v * M) + (1 - xi) / n, before the rescaling
RefDamped(v, M, xi) ==
    [q \in 1..Len(v) |->
        RAdd(RMul(xi, RSum([p \in 1..Len(v) |-> RMul(v[p], M[p][q])])),
             RDiv(RSub(One, xi), <<Len(v), 1>>))]

\* v is t rescaled to unit Euclidean norm: v = t / ||t||, stated on the squares
IsRescaled(v, t) ==
    /\ Len(v) = Len(t)
    /\ SumSq(v) = One
    /\ \A q \in 1..Len(t) :
          /\ RSign(v[q]) = RSign(t[q])
          /\ RMul(RMul(v[q], v[q]), SumSq(t)) = RMul(t[q], t[q])

\* the vector before the last iteration: w - (prev - w) negated, prev = w + d
Before(w, d) == [q \in 1..Len(w) |-> RAdd(w[q], d[q])]

\* C12: hypertextInducedTopicSearch follows the reference iteration: A = L^T L
\* and H = L L^T of the 0/1 matrix L, both symmetric and non-negative; x and y
\* start uniform; an iteration sets x to xi (x A) + (1 - xi)/n and y to
\* xi (y H) + (1 - xi)/n, each rescaled to unit norm; the vectors returned
\* are those of an iteration, the first whose residual is below epsilon.
C12_ReferenceHits ==
    (/\ op = "hits"
     /\ IsSquare(input)
     /\ DampingInRange /\ EpsilonPositive
     /\ pc \in {"loop", "done"})
        => /\ authMatrix = RefA(input) /\ authMatrix = Transpose(authMatrix)
           /\ hubMatrix = RefH(input) /\ hubMatrix = Transpose(hubMatrix)
           /\ steps = 0 => (pc = "loop" /\ x = [q \in 1..Rows(input) |-> Rat(1, Rows(input))] /\ y = x)
           /\ steps >= 1 =>
                 /\ IsRescaled(x, RefDamped(Before(x, residual[1]), RefA(input), alpha))
                 /\ IsRescaled(y, RefDamped(Before(y, residual[2]), RefH(input), alpha))
           /\ Returned => (steps >= 1 /\ ~ResidualGeq(residual, epsilon))

----------------------------------------------------------------------------
(* The iteration counter *)

\* a ranking function called on a square matrix with its parameters in range
ValidRankingCall ==
    \/ ValidPageRankCall
    \/ op = "hits" /\ IsSquare(input) /\ DampingInRange /\ EpsilonPositive

\* C13: in every ranking function the k reported when the loop has ended
\* ("... {k} iterations applied.") is the number of iterations the loop
\* executed; it is 0 only if none was executed.
C13_CounterCountsSteps ==
    (ValidRankingCall /\ Returned) => k = steps

=============================================================================
